---- MODULE Spec2Model ----
(***************************************************************************)
(* Model of src/main.py (Steam download monitor): the active-download      *)
(* selector (find_active_download, dir_size_bytes) and the polling loop    *)
(* with its rate estimator (main).                                         *)
(*                                                                         *)
(* Time is in whole seconds.  File names are sequences of characters.      *)
(* A rate (a float quotient in the code) is kept as the exact fraction     *)
(* num/den.                                                                *)
(***************************************************************************)
EXTENDS Integers, Sequences, FiniteSets, TLC

(* ------------------------------ bounds --------------------------------- *)
\* most directory entries a filesystem of the selector specification holds
MaxDirs == 6
\* most package directories the filesystem of the polling loop holds
MaxPkgs == 2
\* most steps the environment takes during a session: changes of the
\* filesystem and jumps of the wall clock
MaxEnvSteps == 2
\* largest --minutes argument tried
MaxMinutes == 3
\* most lines a manifest of the parser specification holds
MaxLines == 5

(* ------------------------- program constants --------------------------- *)
\* 256 * 1024, main.py:210
Threshold == 262144
\* 10 * 60, main.py:127
AgeWindow == 600
\* candidates[:5], main.py:125
TopN == 5
\* --interval default, main.py:169
DefaultInterval == 60

(* ------------------------- model parameters ---------------------------- *)
\* wall-clock time at which the session starts
T0 == 1000
\* a jump of the wall clock (a stall of the process): two AgeWindows
TickStep == 2 * AgeWindow
DigitChars == {"0", "1", "2", "3", "4", "5", "6", "7", "8", "9"}
Digits == <<"0", "1", "2", "3", "4", "5", "6", "7", "8", "9">>
\* the name of the i-th package directory: the one-digit string of i
PkgName(i) == <<Digits[i + 1]>>
\* sizes a package directory takes in the polling loop
PollSizes == {0, Threshold - 1, Threshold}
\* a package directory when the session starts, by age and size: empty and
\* stale, empty and fresh, non-empty and fresh
StartShapes ==
  {[age |-> 700, size |-> 0], [age |-> 120, size |-> 0],
   [age |-> 120, size |-> Threshold]}
\* the directories of the selector specification, by age at the call and
\* size: empty and stale (twice), empty and fresh, non-empty stale and fresh
SelShapes ==
  {[age |-> 900, size |-> 0], [age |-> 700, size |-> 0],
   [age |-> 120, size |-> 0], [age |-> 900, size |-> 5000],
   [age |-> 120, size |-> 5000]}
\* --interval arguments tried
Intervals == {-1, 0, DefaultInterval}

NoActive ==
  [appid |-> <<>>, name |-> <<>>, state |-> "none", bytes_on_disk |-> 0]
Raised ==
  [appid |-> <<>>, name |-> <<>>, state |-> "raised", bytes_on_disk |-> 0]
NoEst == [first |-> FALSE, last_b |-> 0, last_t |-> 0, dt |-> 0, delta |-> 0,
          rate |-> [num |-> 0, den |-> 1], status |-> "none"]
EmptyMap == [x \in {} |-> 0]

Max(a, b) == IF a >= b THEN a ELSE b

WhiteSpace == {" ", "\t"}
Quote == "\""

(* ----------------------------- manifests ------------------------------- *)
\* the lines manifests are made of
LineOpen == <<"\t", "{">>
LineClose == <<"}">>
LineHeader == <<Quote, "A", "p", "p", Quote>>
LineNameA ==
  <<"\t", Quote, "n", "a", "m", "e", Quote, "\t", "\t", Quote, "A", Quote>>
LineNameB == <<Quote, "n", "a", "m", "e", Quote, " ", Quote, "B", Quote, " ">>
LineNameEmpty == <<Quote, "n", "a", "m", "e", Quote, " ", Quote, Quote>>
LineOther == <<Quote, "k", Quote, Quote, "v", Quote>>
AcfLines ==
  {LineOpen, LineClose, LineHeader, LineNameA, LineNameB, LineNameEmpty,
   LineOther}

\* the manifests on disk when a session starts: one for the first package
StartManifests ==
  [x \in {PkgName(1)} |-> <<LineOpen, LineNameB>>]

VARIABLES
  fs,          \* [downloading: BOOLEAN, entries: Seq of directory entries,
               \*  manifests: appid -> lines of appmanifest_<appid>.acf]
  clock,       \* wall clock, time.time()
  env,         \* number of steps the environment has taken so far
  args,        \* [minutes, interval]: the parsed command line
  steam,       \* [found, steamapps]: what the startup lookups find
  pc,          \* position of main()
  loops, i,    \* main's loop bound and loop index
  now,         \* main's sample time of the round
  candidates,  \* find_active_download's sorted, capped candidate list
  idx,         \* position of its scan loop in candidates
  active,      \* its result
  prev, prev_time,  \* RateState
  est,         \* the rate estimator's locals of the last estimate
  roundOut,    \* lines printed by the current round
  exitStatus,  \* process exit status, -1 while running
  parser       \* parse_acf's locals: [lines, pos, stack, data, raised]

vars == <<fs, clock, env, args, steam, pc, loops, i, now, candidates, idx,
          active, prev, prev_time, est, roundOut, exitStatus, parser>>

(* --------------------------- the filesystem ---------------------------- *)
\* str.isdigit(): non-empty and every character a digit
IsDigit(name) == Len(name) > 0 /\ \A k \in 1..Len(name) : name[k] \in DigitChars

HasEntry(f, name) == \E k \in 1..Len(f.entries) : f.entries[k].name = name
Entry(f, name) ==
  f.entries[CHOOSE k \in 1..Len(f.entries) : f.entries[k].name = name]

\* Path.is_dir() for an entry of the downloading directory
IsDir(e) == e.kind = "dir"

\* dir_size_bytes: the sum of the file sizes below the path, 0 when the walk
\* finds nothing (os.walk swallows a missing root)
dir_size_bytes(f, name) ==
  IF f.downloading /\ HasEntry(f, name) /\ IsDir(Entry(f, name))
  THEN Entry(f, name).size ELSE 0

(* ------------------------------ parse_acf ------------------------------ *)
EmptyData == [x \in {} |-> <<>>]
\* the regular expression did not match
NoMatch == [key |-> <<>>, value |-> <<>>]

MinOf(S) == CHOOSE x \in S : \A y \in S : x <= y
MaxOf(S) == CHOOSE x \in S : \A y \in S : x >= y

\* str.strip()
Strip(s) ==
  LET inked == {k \in 1..Len(s) : s[k] \notin WhiteSpace}
  IN  IF inked = {} THEN <<>> ELSE SubSeq(s, MinOf(inked), MaxOf(inked))

\* line.startswith("//")
IsComment(s) == Len(s) >= 2 /\ s[1] = "/" /\ s[2] = "/"

\* the first place at or behind p that holds no white space, Len(s) + 1 if none
SkipSpace(s, p) ==
  LET inked == {k \in p..Len(s) : s[k] \notin WhiteSpace}
  IN  IF inked = {} THEN Len(s) + 1 ELSE MinOf(inked)

\* the first quote behind place p, 0 if none
NextQuote(s, p) ==
  LET quotes == {k \in (p + 1)..Len(s) : s[k] = Quote}
  IN  IF quotes = {} THEN 0 ELSE MinOf(quotes)

\* _ACF_KV_RE.match(line) for ^\s*"([^"]+)"\s*"([^"]*)"\s*$
AcfMatch(s) ==
  LET a == SkipSpace(s, 1)
  IN  IF a > Len(s) \/ s[a] # Quote THEN NoMatch
      ELSE LET b == NextQuote(s, a)
           IN  IF b = 0 \/ b = a + 1 THEN NoMatch
               ELSE LET c == SkipSpace(s, b + 1)
                    IN  IF c > Len(s) \/ s[c] # Quote THEN NoMatch
                        ELSE LET d == NextQuote(s, c)
                             IN  IF d = 0 \/ SkipSpace(s, d + 1) <= Len(s)
                                 THEN NoMatch
                                 ELSE [key |-> SubSeq(s, a + 1, b - 1),
                                       value |-> SubSeq(s, c + 1, d - 1)]

\* data[k] = v
SetOverwrite(d, k, v) ==
  [x \in (DOMAIN d) \cup {k} |-> IF x = k THEN v ELSE d[x]]
\* data.setdefault(k, v)
SetDefault(d, k, v) ==
  IF k \in DOMAIN d THEN d
  ELSE [x \in (DOMAIN d) \cup {k} |-> IF x = k THEN v ELSE d[x]]

\* stack.pop() without the test: IndexError on an empty stack
AcfCloseUnguarded(stack) ==
  IF Len(stack) > 0
  THEN [stack |-> SubSeq(stack, 1, Len(stack) - 1), raised |-> FALSE]
  ELSE [stack |-> stack, raised |-> TRUE]
\* if stack: stack.pop()
AcfClose(stack) ==
  IF Len(stack) > 0
  THEN [stack |-> SubSeq(stack, 1, Len(stack) - 1), raised |-> FALSE]
  ELSE [stack |-> stack, raised |-> FALSE]

\* a match recorded at any depth
RecordsAnywhere(m, stack) == m # NoMatch
\* if m and len(stack) >= 1
Records(m, stack) == m # NoMatch /\ Len(stack) >= 1

\* parse_acf's locals before the first line
ParserAt(lines) ==
  [lines |-> lines, pos |-> 1, stack |-> <<>>, data |-> EmptyData,
   raised |-> FALSE]
\* no parse is under way
NoParser == ParserAt(<<>>)

\* one iteration of the loop over the lines
ParseLine(st) ==
  LET line == Strip(st.lines[st.pos])
      next == [st EXCEPT !.pos = @ + 1]
  IN  IF line = <<>> \/ IsComment(line) THEN next
      ELSE IF line = <<"{">> THEN [next EXCEPT !.stack = Append(@, "{")]
      ELSE IF line = <<"}">>
           THEN LET r == AcfClose(st.stack)
                IN  IF r.raised THEN [st EXCEPT !.raised = TRUE]
                    ELSE [next EXCEPT !.stack = r.stack]
           ELSE LET m == AcfMatch(line)
                IN  IF Records(m, st.stack)
                    THEN [next EXCEPT !.data = SetDefault(@, m.key, m.value)]
                    ELSE next

\* the loop has ended: the lines are exhausted, or an exception was caught
ParseEnded(st) == st.raised \/ st.pos > Len(st.lines)

RECURSIVE ParseAll(_)
ParseAll(st) == IF ParseEnded(st) THEN st ELSE ParseAll(ParseLine(st))

\* parse_acf(steamapps / f"appmanifest_{appid}.acf")
parse_acf(f, appid) ==
  IF appid \notin DOMAIN f.manifests THEN EmptyData
  ELSE ParseAll(ParserAt(f.manifests[appid])).data

NameKey == <<"n", "a", "m", "e">>
AppIdLabel == <<"A", "p", "p", "I", "D", " ">>
\* info.get("name", f"AppID {appid}")
DisplayNameIfPresent(info, appid) ==
  IF NameKey \in DOMAIN info THEN info[NameKey] ELSE AppIdLabel \o appid
\* the fallback without the identifier
DisplayNameBare(info, appid) ==
  IF NameKey \in DOMAIN info /\ info[NameKey] # <<>> THEN info[NameKey]
  ELSE AppIdLabel
\* info.get("name") or f"AppID {appid}"
DisplayName(info, appid) ==
  IF NameKey \in DOMAIN info /\ info[NameKey] # <<>> THEN info[NameKey]
  ELSE AppIdLabel \o appid

(* ------------------------ find_active_download ------------------------- *)
\* the loop over downloading.iterdir(): numeric-named directories, in
\* directory order, each with its mtime
RECURSIVE EnumFrom(_, _)
EnumFrom(entries, k) ==
  IF k > Len(entries) THEN <<>>
  ELSE IF IsDir(entries[k]) /\ IsDigit(entries[k].name)
       THEN <<[mtime |-> entries[k].mtime, name |-> entries[k].name]>>
            \o EnumFrom(entries, k + 1)
       ELSE EnumFrom(entries, k + 1)

EnumCandidates(f) == EnumFrom(f.entries, 1)

\* the place of c in a list sorted by mtime descending: behind every element
\* whose mtime is not smaller (the sort is stable)
InsertPos(sorted, c) ==
  IF \E j \in 1..Len(sorted) : sorted[j].mtime < c.mtime
  THEN CHOOSE j \in 1..Len(sorted) :
         /\ sorted[j].mtime < c.mtime
         /\ \A h \in 1..(j - 1) : sorted[h].mtime >= c.mtime
  ELSE Len(sorted) + 1

InsertDesc(sorted, c) ==
  LET p == InsertPos(sorted, c)
  IN  SubSeq(sorted, 1, p - 1) \o <<c>> \o SubSeq(sorted, p, Len(sorted))

\* candidates.sort(reverse=True, key=mtime)
RECURSIVE SortFrom(_, _, _)
SortFrom(cands, k, acc) ==
  IF k > Len(cands) THEN acc
  ELSE SortFrom(cands, k + 1, InsertDesc(acc, cands[k]))

SortDesc(cands) == SortFrom(cands, 1, <<>>)

\* a scan that is not capped
TopUncapped(cands) == cands
\* candidates[:5]
Top(cands) == SubSeq(cands, 1, IF Len(cands) < TopN THEN Len(cands) ELSE TopN)

\* size_b > 0 or (time.time() - app_dir.stat().st_mtime) < 10 * 60
Accepts(size_b, age) == size_b > 0 \/ age < AgeWindow

\* one iteration of the scan loop on candidate c at time t: the accepted
\* ActiveDownload, NoActive when c is rejected, Raised when app_dir.stat()
\* fails because the directory is gone
ScanOne(f, t, c) ==
  LET size_b == dir_size_bytes(f, c.name)
      found  == [appid |-> c.name,
                 name |-> DisplayName(parse_acf(f, c.name), c.name),
                 state |-> "downloading", bytes_on_disk |-> size_b]
  IN  IF size_b > 0 THEN found
      ELSE IF ~(f.downloading /\ HasEntry(f, c.name))
           THEN Raised
           ELSE IF Accepts(size_b, t - Entry(f, c.name).mtime)
                THEN found
                ELSE NoActive

\* the scan loop from position k on an unchanging filesystem
RECURSIVE ScanLoop(_, _, _, _)
ScanLoop(cands, k, f, t) ==
  IF k > Len(cands) THEN NoActive
  ELSE LET r == ScanOne(f, t, cands[k])
       IN  IF r = NoActive THEN ScanLoop(cands, k + 1, f, t) ELSE r

\* find_active_download on an unchanging filesystem at time t
find_active_download(f, t) ==
  IF ~f.downloading THEN NoActive
  ELSE LET c == EnumCandidates(f)
       IN  IF c = <<>> THEN NoActive
           ELSE ScanLoop(Top(SortDesc(c)), 1, f, t)

(* -------------------------- the rate estimator ------------------------- *)
\* an unseen package counted from size 0
LastBFromZero(p, appid, cur) == IF appid \in DOMAIN p THEN p[appid] ELSE 0
\* prev.get(active.appid, active.bytes_on_disk)
LastB(p, appid, cur) == IF appid \in DOMAIN p THEN p[appid] ELSE cur
\* the previous time taken as one interval ago, whatever RateState holds
LastTNominal(pt, appid, t, interval) == t - interval
\* prev_time.get(active.appid, now - args.interval)
LastT(pt, appid, t, interval) ==
  IF appid \in DOMAIN pt THEN pt[appid] ELSE t - interval
\* the elapsed time without its floor
ElapsedUnfloored(t, last_t) == t - last_t
\* dt = max(1.0, now - last_t)
Elapsed(t, last_t) == Max(1, t - last_t)
\* the delta taken as the size itself
DeltaOfSize(cur, last_b) == cur
\* the delta without its clamp
DeltaUnclamped(cur, last_b) == cur - last_b
\* delta = max(0, active.bytes_on_disk - last_b)
Delta(cur, last_b) == Max(0, cur - last_b)
\* rate = delta / dt
Rate(delta, dt) == [num |-> delta, den |-> dt]
\* the threshold compared with <=
StatusInclusive(delta) ==
  IF delta <= Threshold THEN "paused or idle" ELSE "downloading"
\* status = "downloading"; if delta < 256 * 1024: status = "paused or idle"
Status(delta) == IF delta < Threshold THEN "paused or idle" ELSE "downloading"
\* an assignment that rebuilds the mapping from the one key
StoreOnly(m, k, v) == [x \in {k} |-> v]
\* prev[appid] = value
Store(m, k, v) == [x \in (DOMAIN m) \cup {k} |-> IF x = k THEN v ELSE m[x]]

Estimate(p, pt, a, t, interval) ==
  LET last_b == LastB(p, a.appid, a.bytes_on_disk)
      last_t == LastT(pt, a.appid, t, interval)
      dt     == Elapsed(t, last_t)
      delta  == Delta(a.bytes_on_disk, last_b)
  IN  [first |-> a.appid \notin DOMAIN p, last_b |-> last_b, last_t |-> last_t,
       dt |-> dt, delta |-> delta, rate |-> Rate(delta, dt),
       status |-> Status(delta)]

\* the two lines a round can print
NoActiveLine == [kind |-> "none"]
\* a status line that prints the selector's tag
StatusLineOfState(a, e) ==
  [kind |-> "status", name |-> a.name, appid |-> a.appid, status |-> a.state,
   rate |-> e.rate, temp |-> a.bytes_on_disk]
\* print(f"[{ts}] {active.name} (AppID {active.appid}) - {status} - ...")
StatusLine(a, e) ==
  [kind |-> "status", name |-> a.name, appid |-> a.appid, status |-> e.status,
   rate |-> e.rate, temp |-> a.bytes_on_disk]

\* RateState written without the test for an active download
PrevAfterAlways(p, a) ==
  [x \in (DOMAIN p) \cup {a.appid} |->
     IF x = a.appid THEN a.bytes_on_disk ELSE p[x]]
\* RateState after the round's report
PrevAfter(p, a) ==
  IF a = NoActive THEN p ELSE Store(p, a.appid, a.bytes_on_disk)
\* RateState that keeps its time when the package was seen before
PrevTimeAfterFirstOnly(pt, a, t) ==
  IF a = NoActive \/ a.appid \in DOMAIN pt THEN pt
  ELSE [x \in (DOMAIN pt) \cup {a.appid} |-> IF x = a.appid THEN t ELSE pt[x]]
PrevTimeAfter(pt, a, t) ==
  IF a = NoActive THEN pt ELSE Store(pt, a.appid, t)

(* ------------------------------- main ---------------------------------- *)
Startup ==
  /\ pc = "start"
  /\ IF ~steam.found
     THEN pc' = "exit" /\ exitStatus' = 2 /\ UNCHANGED loops
     ELSE IF ~steam.steamapps
          THEN pc' = "exit" /\ exitStatus' = 3 /\ UNCHANGED loops
          ELSE pc' = "round" /\ loops' = Max(1, args.minutes)
               /\ UNCHANGED exitStatus
  /\ UNCHANGED parser
  /\ UNCHANGED <<fs, clock, env, args, steam, i, now, candidates, idx, active,
                 prev, prev_time, est, roundOut>>

\* now = time.time(); find_active_download up to downloading.exists()
RoundBegin ==
  /\ pc = "round"
  /\ now' = clock
  /\ roundOut' = <<>>
  /\ est' = NoEst
  /\ active' = NoActive
  /\ pc' = IF fs.downloading THEN "iterdir" ELSE "report"
  /\ UNCHANGED parser
  /\ UNCHANGED <<fs, clock, env, args, steam, loops, i, candidates, idx, prev,
                 prev_time, exitStatus>>

\* the iterdir loop, the emptiness test and the sort
Enumerate ==
  /\ pc = "iterdir"
  /\ IF ~fs.downloading
     THEN pc' = "crashed" /\ exitStatus' = 1 /\ UNCHANGED <<candidates, idx>>
     ELSE LET c == EnumCandidates(fs)
          IN  IF c = <<>>
              THEN pc' = "report" /\ UNCHANGED <<candidates, idx, exitStatus>>
              ELSE /\ pc' = "scan" /\ candidates' = Top(SortDesc(c))
                   /\ idx' = 1 /\ UNCHANGED exitStatus
  /\ UNCHANGED parser
  /\ UNCHANGED <<fs, clock, env, args, steam, loops, i, now, active, prev,
                 prev_time, est, roundOut>>

\* one iteration of the loop over candidates[:5], or its exhaustion
ScanStep ==
  /\ pc = "scan"
  /\ IF idx > Len(candidates)
     THEN /\ pc' = "report" /\ candidates' = <<>> /\ idx' = 0
          /\ UNCHANGED <<active, exitStatus>>
     ELSE LET r == ScanOne(fs, clock, candidates[idx])
          IN  IF r = Raised
              THEN /\ pc' = "crashed" /\ exitStatus' = 1
                   /\ candidates' = <<>> /\ idx' = 0
                   /\ UNCHANGED active
              ELSE IF r = NoActive
                   THEN /\ pc' = "scan" /\ idx' = idx + 1
                        /\ UNCHANGED <<candidates, active, exitStatus>>
                   ELSE /\ pc' = "report" /\ active' = r
                        /\ candidates' = <<>> /\ idx' = 0
                        /\ UNCHANGED exitStatus
  /\ UNCHANGED parser
  /\ UNCHANGED <<fs, clock, env, args, steam, loops, i, now, prev, prev_time,
                 est, roundOut>>

\* the rest of the loop body: the notice, or the estimate, the status line
\* and the update of RateState; then the loop test
Report ==
  /\ pc = "report"
  /\ IF active = NoActive
     THEN roundOut' = Append(roundOut, NoActiveLine) /\ UNCHANGED est
     ELSE LET e == Estimate(prev, prev_time, active, now, args.interval)
          IN  est' = e /\ roundOut' = Append(roundOut, StatusLine(active, e))
  /\ prev' = PrevAfter(prev, active)
  /\ prev_time' = PrevTimeAfter(prev_time, active, now)
  /\ IF i < loops - 1
     THEN pc' = "sleep" /\ UNCHANGED exitStatus
     ELSE pc' = "exit" /\ exitStatus' = 0
  /\ UNCHANGED parser
  /\ UNCHANGED <<fs, clock, env, args, steam, loops, i, now, candidates, idx,
                 active>>

\* time.sleep(args.interval), which raises ValueError on a negative length
Sleep ==
  /\ pc = "sleep"
  /\ IF args.interval < 0
     THEN pc' = "crashed" /\ exitStatus' = 1 /\ UNCHANGED <<clock, i>>
     ELSE pc' = "round" /\ clock' = clock + args.interval /\ i' = i + 1
          /\ UNCHANGED exitStatus
  /\ UNCHANGED parser
  /\ UNCHANGED <<fs, env, args, steam, loops, now, candidates, idx, active,
                 prev, prev_time, est, roundOut>>

(* --------------------------- the environment --------------------------- *)
\* the environment moves while the session runs; the report reads neither
\* the filesystem nor the clock, so a step during it is a step right after it
Running == pc \in {"round", "iterdir", "scan", "sleep"}

RemoveAt(s, k) == SubSeq(s, 1, k - 1) \o SubSeq(s, k + 1, Len(s))

\* the client writes into (or trims) a package directory
FsWrite ==
  /\ Running /\ env < MaxEnvSteps /\ fs.downloading
  /\ \E k \in 1..Len(fs.entries), sz \in PollSizes :
       /\ sz # fs.entries[k].size
       /\ fs' = [fs EXCEPT !.entries[k].size = sz, !.entries[k].mtime = clock]
  /\ env' = env + 1
  /\ UNCHANGED parser
  /\ UNCHANGED <<clock, args, steam, pc, loops, i, now, candidates, idx, active,
                 prev, prev_time, est, roundOut, exitStatus>>

\* the client removes a package directory
FsRemove ==
  /\ Running /\ env < MaxEnvSteps /\ fs.downloading
  /\ \E k \in 1..Len(fs.entries) :
       fs' = [fs EXCEPT !.entries = RemoveAt(@, k)]
  /\ env' = env + 1
  /\ UNCHANGED parser
  /\ UNCHANGED <<clock, args, steam, pc, loops, i, now, candidates, idx, active,
                 prev, prev_time, est, roundOut, exitStatus>>

\* the client creates an empty package directory
FsCreate ==
  /\ Running /\ env < MaxEnvSteps /\ fs.downloading
  /\ \E n \in 1..MaxPkgs :
       /\ ~HasEntry(fs, PkgName(n))
       /\ fs' = [fs EXCEPT !.entries =
                   Append(@, [name |-> PkgName(n), kind |-> "dir",
                              mtime |-> clock, size |-> 0])]
  /\ env' = env + 1
  /\ UNCHANGED parser
  /\ UNCHANGED <<clock, args, steam, pc, loops, i, now, candidates, idx, active,
                 prev, prev_time, est, roundOut, exitStatus>>

\* the downloading directory is removed with all it holds
FsRemoveDownloading ==
  /\ Running /\ env < MaxEnvSteps /\ fs.downloading
  /\ fs' = [fs EXCEPT !.downloading = FALSE, !.entries = <<>>]
  /\ env' = env + 1
  /\ UNCHANGED parser
  /\ UNCHANGED <<clock, args, steam, pc, loops, i, now, candidates, idx, active,
                 prev, prev_time, est, roundOut, exitStatus>>

\* the wall clock moves ahead while the process is stalled
Tick ==
  /\ Running /\ env < MaxEnvSteps
  /\ clock' = clock + TickStep
  /\ env' = env + 1
  /\ UNCHANGED parser
  /\ UNCHANGED <<fs, args, steam, pc, loops, i, now, candidates, idx, active,
                 prev, prev_time, est, roundOut, exitStatus>>

(* ---------------------------- specification ---------------------------- *)
\* the package directories the session may find: package k with the
\* modification time and size that m gives it
PollEntries(m) ==
  [k \in DOMAIN m |-> [name |-> PkgName(k), kind |-> "dir",
                       mtime |-> T0 - m[k].age, size |-> m[k].size]]

\* the filesystems the session may start on: no downloading directory, or
\* one holding the first n package directories
IsPollFilesystem(f) ==
  \/ f = [downloading |-> FALSE, entries |-> <<>>,
          manifests |-> StartManifests]
  \/ \E n \in 0..MaxPkgs :
       \E m \in [1..n -> StartShapes] :
         f = [downloading |-> TRUE, entries |-> PollEntries(m),
              manifests |-> StartManifests]

Init ==
  /\ IsPollFilesystem(fs)
  /\ clock = T0
  /\ env = 0
  /\ args \in [minutes : {0, 1, MaxMinutes}, interval : Intervals]
  /\ steam \in [found : BOOLEAN, steamapps : BOOLEAN]
  /\ pc = "start"
  /\ loops = 0 /\ i = 0 /\ now = 0
  /\ candidates = <<>> /\ idx = 0 /\ active = NoActive
  /\ prev = EmptyMap /\ prev_time = EmptyMap
  /\ est = NoEst
  /\ roundOut = <<>>
  /\ exitStatus = -1
  /\ parser = NoParser

Next ==
  \/ Startup
  \/ RoundBegin
  \/ Enumerate
  \/ ScanStep
  \/ Report
  \/ Sleep
  \/ FsWrite
  \/ FsRemove
  \/ FsCreate
  \/ FsRemoveDownloading
  \/ Tick

Spec == Init /\ [][Next]_vars

(* -------------------- the selector on its own -------------------------- *)
\* the selector's directories: place k of the listing holds package k with
\* the modification time and size that m gives it
SelEntries(m) ==
  [k \in DOMAIN m |-> [name |-> PkgName(k), kind |-> "dir",
                       mtime |-> T0 - m[k].age, size |-> m[k].size]]

\* entries the selector has to ignore: a numeric-named plain file and a
\* directory whose name is not numeric, both fresh and non-empty
Distractors ==
  <<[name |-> <<"9", "9">>, kind |-> "file", mtime |-> T0, size |-> 5000],
    [name |-> <<"t", "m", "p">>, kind |-> "dir", mtime |-> T0, size |-> 5000],
    [name |-> <<"1", "a">>, kind |-> "dir", mtime |-> T0, size |-> 5000]>>

\* the filesystems the selector is tried on: no downloading directory, or
\* one holding n package directories, behind the distractors or without them
IsSelFilesystem(f) ==
  \/ f = [downloading |-> FALSE, entries |-> <<>>,
          manifests |-> StartManifests]
  \/ \E n \in 0..MaxDirs, x \in {<<>>, Distractors} :
       \E m \in [1..n -> SelShapes] :
         f = [downloading |-> TRUE, entries |-> x \o SelEntries(m),
              manifests |-> StartManifests]

SelInit ==
  /\ IsSelFilesystem(fs)
  /\ clock = T0
  /\ env = 0
  /\ args = [minutes |-> 1, interval |-> DefaultInterval]
  /\ steam = [found |-> TRUE, steamapps |-> TRUE]
  /\ pc = "sel"
  /\ loops = 0 /\ i = 0 /\ now = 0
  /\ candidates = <<>> /\ idx = 0 /\ active = NoActive
  /\ prev = EmptyMap /\ prev_time = EmptyMap
  /\ est = NoEst
  /\ roundOut = <<>>
  /\ exitStatus = -1
  /\ parser = NoParser

\* one call of find_active_download with nothing else running
SelApply ==
  /\ pc = "sel"
  /\ active' = find_active_download(fs, clock)
  /\ pc' = "selDone"
  /\ UNCHANGED parser
  /\ UNCHANGED <<fs, clock, env, args, steam, loops, i, now, candidates, idx,
                 prev, prev_time, est, roundOut, exitStatus>>

SelNext == SelApply

SelSpec == SelInit /\ [][SelNext]_vars

(* ---------------------- the parser on its own -------------------------- *)
\* the only package of the parser specification
AcfPkg == PkgName(1)

\* its filesystem: one fresh, empty package directory with the manifest m
AcfFilesystem(m) ==
  [downloading |-> TRUE,
   entries |-> <<[name |-> AcfPkg, kind |-> "dir", mtime |-> T0 - 120,
                  size |-> 0]>>,
   manifests |-> m]

AcfInit ==
  /\ \/ fs = AcfFilesystem(EmptyData)
     \/ \E n \in 0..MaxLines : \E ls \in [1..n -> AcfLines] :
          fs = AcfFilesystem([x \in {AcfPkg} |-> ls])
  /\ clock = T0
  /\ env = 0
  /\ args = [minutes |-> 1, interval |-> DefaultInterval]
  /\ steam = [found |-> TRUE, steamapps |-> TRUE]
  /\ pc = "acf"
  /\ loops = 0 /\ i = 0 /\ now = 0
  /\ candidates = <<>> /\ idx = 0 /\ active = NoActive
  /\ prev = EmptyMap /\ prev_time = EmptyMap
  /\ est = NoEst
  /\ roundOut = <<>>
  /\ exitStatus = -1
  /\ parser = NoParser

\* the selector has accepted the package and calls parse_acf: the manifest
\* is missing, or its lines are read
AcfOpen ==
  /\ pc = "acf"
  /\ IF AcfPkg \notin DOMAIN fs.manifests
     THEN /\ pc' = "acfDone"
          /\ active' = find_active_download(fs, clock)
          /\ UNCHANGED parser
     ELSE /\ pc' = "acfLoop"
          /\ parser' = ParserAt(fs.manifests[AcfPkg])
          /\ UNCHANGED active
  /\ UNCHANGED <<fs, clock, env, args, steam, loops, i, now, candidates, idx,
                 prev, prev_time, est, roundOut, exitStatus>>

\* one line of the manifest
AcfLine ==
  /\ pc = "acfLoop"
  /\ ~ParseEnded(parser)
  /\ parser' = ParseLine(parser)
  /\ UNCHANGED <<fs, clock, env, args, steam, pc, loops, i, now, candidates,
                 idx, active, prev, prev_time, est, roundOut, exitStatus>>

\* parse_acf returns and the selector builds its ActiveDownload
AcfReturn ==
  /\ pc = "acfLoop"
  /\ ParseEnded(parser)
  /\ pc' = "acfDone"
  /\ active' = find_active_download(fs, clock)
  /\ UNCHANGED <<fs, clock, env, args, steam, loops, i, now, candidates, idx,
                 prev, prev_time, est, roundOut, exitStatus, parser>>

AcfNext ==
  \/ AcfOpen
  \/ AcfLine
  \/ AcfReturn

AcfSpec == AcfInit /\ [][AcfNext]_vars

(* ------------------------------ properties ----------------------------- *)
\* the round has printed a status line
Reported == roundOut # <<>> /\ roundOut[1].kind = "status"

\* C1: in every round with an active download the reported status is
\* "paused or idle" exactly when the clamped delta, max(0, current size -
\* previous size), is below 262144, and "downloading" otherwise, whatever
\* the elapsed time and the rate are
C1_StatusByDelta ==
  Reported =>
    /\ est.delta = Max(0, roundOut[1].temp - est.last_b)
    /\ (roundOut[1].status = "paused or idle") <=> (est.delta < 262144)
    /\ (roundOut[1].status = "downloading") <=> (est.delta >= 262144)
    /\ roundOut[1].status \in {"paused or idle", "downloading"}

\* a round reported "downloading" on a delta of exactly the threshold, over
\* an elapsed time of a whole interval
C1_Witness ==
  /\ Reported /\ roundOut[1].status = "downloading"
  /\ est.delta = 262144 /\ est.dt > 1

\* C2: delta and rate are never negative; when the current size is below the
\* size retained in RateState, delta is 0, the rate is 0 and the status is
\* "paused or idle"
C2_NeverNegative ==
  Reported =>
    /\ est.delta >= 0
    /\ est.rate.den > 0 /\ est.rate.num >= 0
    /\ (~est.first /\ roundOut[1].temp < est.last_b) =>
         /\ est.delta = 0
         /\ est.rate.num = 0
         /\ roundOut[1].status = "paused or idle"

\* a round found its package smaller than RateState had it
C2_Witness ==
  Reported /\ ~est.first /\ roundOut[1].temp < est.last_b

\* C3 as stated: on the first observation of a package with size S and
\* interval I the reported rate is S / I
C3_FirstRateIsSizeOverInterval ==
  (Reported /\ est.first /\ args.interval > 0) =>
    est.rate.num * args.interval = roundOut[1].temp * est.rate.den

\* C3 amended: on the first observation of a package the previous size
\* defaults to the current size, so delta is 0 and the reported rate is 0
C3_FirstRateIsZero ==
  (Reported /\ est.first) =>
    /\ est.last_b = roundOut[1].temp
    /\ est.delta = 0
    /\ est.rate.num = 0 /\ est.rate.den > 0

\* a first observation of a non-empty package with the default interval
C3_Witness ==
  /\ Reported /\ est.first /\ roundOut[1].temp > 0
  /\ args.interval = DefaultInterval

\* C4 as stated: the first round in which an unseen package is active
\* reports it with status "downloading"
C4_FirstIsDownloading ==
  (Reported /\ est.first) => roundOut[1].status = "downloading"

\* C4 amended: the first round in which an unseen package is active reports
\* that package with status "paused or idle", while the selector's own tag
\* of it is "downloading"
C4_FirstIsPaused ==
  (Reported /\ est.first) =>
    /\ roundOut[1].status = "paused or idle"
    /\ roundOut[1].appid = active.appid
    /\ active.state = "downloading"

\* the only candidate holds 0 bytes, was modified 2 minutes before the
\* round, and is reported in its first round
C4_Witness ==
  /\ Reported /\ est.first /\ roundOut[1].temp = 0
  /\ fs.downloading /\ Len(fs.entries) = 1
  /\ fs.entries[1].size = 0 /\ fs.entries[1].mtime = now - 120
  /\ fs.entries[1].name = roundOut[1].appid

\* C5: a round with no active download leaves RateState as it was (no step
\* of the round before the report writes it, and the report does not) and
\* prints the "no active downloads" notice
C5_NoActiveKeepsRateState ==
  [][/\ (pc \in {"round", "iterdir", "scan"}) =>
          (prev' = prev /\ prev_time' = prev_time)
     /\ (pc = "report" /\ pc' # "report" /\ active = NoActive) =>
          /\ prev' = prev /\ prev_time' = prev_time
          /\ roundOut' = <<NoActiveLine>>]_vars

\* a round without an active download has ended with a package in RateState
C5_Witness ==
  /\ pc \in {"sleep", "exit"} /\ roundOut = <<NoActiveLine>>
  /\ DOMAIN prev # {}

\* C6: after every round with an active download P of size S sampled at
\* round time T, RateState holds (S, T) for P, whatever the status
C6_RateStateHoldsSample ==
  (pc \in {"sleep", "exit"} /\ active # NoActive) =>
    /\ active.appid \in DOMAIN prev /\ active.appid \in DOMAIN prev_time
    /\ prev[active.appid] = active.bytes_on_disk
    /\ prev_time[active.appid] = now

\* a round whose package had shrunk was reported "paused or idle"
C6_Witness ==
  /\ pc \in {"sleep", "exit"} /\ active # NoActive /\ Reported
  /\ ~est.first /\ active.bytes_on_disk < est.last_b
  /\ roundOut[1].status = "paused or idle"

\* C7: the identifiers in RateState never shrink, and a step changes the
\* entry of at most the package reported active in that round
C7_RateStateFrame ==
  [][/\ DOMAIN prev \subseteq DOMAIN prev'
     /\ DOMAIN prev_time \subseteq DOMAIN prev_time'
     /\ DOMAIN prev' = DOMAIN prev_time'
     /\ \A k \in DOMAIN prev' :
          (\/ k \notin DOMAIN prev
           \/ prev'[k] # prev[k]
           \/ prev_time'[k] # prev_time[k]) =>
            (pc = "report" /\ active # NoActive /\ k = active.appid)]_vars

\* two packages are in RateState and the round has just rewritten one
C7_Witness ==
  /\ Cardinality(DOMAIN prev) >= 2 /\ Reported /\ ~est.first
  /\ pc \in {"sleep", "exit"}

\* C10: in every round with an active download the elapsed time is
\* max(1, now - previous time), the previous time of an unseen package being
\* now - interval; so it is >= 1, rate = delta / elapsed and rate <= delta
C10_ElapsedFloored ==
  [][(pc = "report" /\ pc' # "report" /\ active # NoActive) =>
       LET last_t == IF active.appid \in DOMAIN prev_time
                     THEN prev_time[active.appid]
                     ELSE now - args.interval
       IN  /\ est'.dt = (IF now - last_t >= 1 THEN now - last_t ELSE 1)
           /\ est'.dt >= 1
           /\ est'.rate.den = est'.dt /\ est'.rate.num = est'.delta
           /\ est'.rate.num <= est'.delta * est'.rate.den]_vars

\* a growing package was reported less than one second after its last sample
C10_Witness ==
  Reported /\ ~est.first /\ now - est.last_t < 1 /\ est.delta > 0

\* C9 as stated: no step of the selector ends the round with an exception
C9_SelectorNeverRaises ==
  [][(pc \in {"iterdir", "scan"}) => pc' # "crashed"]_vars

(* the selector's reference *)
\* places of the listing that hold a numeric-named directory
RefCandidates(f) ==
  {k \in 1..Len(f.entries) :
     f.entries[k].kind = "dir" /\ IsDigit(f.entries[k].name)}

\* h comes before k when ordered by modification time descending, equal
\* times in the order of the listing
RefBefore(f, h, k) ==
  \/ f.entries[h].mtime > f.entries[k].mtime
  \/ (f.entries[h].mtime = f.entries[k].mtime /\ h < k)

RefRank(f, k) == Cardinality({h \in RefCandidates(f) : RefBefore(f, h, k)}) + 1

RefQualifies(f, t, k) ==
  f.entries[k].size > 0 \/ t - f.entries[k].mtime < 600

RefEligible(f, t) ==
  {k \in RefCandidates(f) : RefRank(f, k) <= 5 /\ RefQualifies(f, t, k)}

RefResult(f, t) ==
  IF ~f.downloading \/ RefEligible(f, t) = {} THEN NoActive
  ELSE LET k == CHOOSE c \in RefEligible(f, t) :
                  \A d \in RefEligible(f, t) : RefRank(f, c) <= RefRank(f, d)
       IN  [appid |-> f.entries[k].name, state |-> "downloading",
            bytes_on_disk |-> f.entries[k].size]

\* C8: the selector returns the first, by modification time descending, of
\* the five most recent numeric-named directories that has size > 0 or age
\* < 600 s, and none when there is no such directory, also when one ranked
\* sixth or later would qualify
C8_SelectorIsReference ==
  pc = "selDone" =>
    LET r == RefResult(fs, clock)
    IN  /\ active.appid = r.appid
        /\ active.state = r.state
        /\ active.bytes_on_disk = r.bytes_on_disk

\* the selector returned none although the candidate ranked sixth qualifies
C8_Witness ==
  /\ pc = "selDone" /\ active = NoActive
  /\ \E k \in RefCandidates(fs) :
       RefRank(fs, k) = 6 /\ RefQualifies(fs, clock, k)

(* the parser's reference *)
\* what each line of AcfLines holds: its key and value, NoMatch for a line
\* that is no key/value line
RefKV(l) ==
  CASE l = LineNameA -> [key |-> <<"n", "a", "m", "e">>, value |-> <<"A">>]
    [] l = LineNameB -> [key |-> <<"n", "a", "m", "e">>, value |-> <<"B">>]
    [] l = LineNameEmpty -> [key |-> <<"n", "a", "m", "e">>, value |-> <<>>]
    [] l = LineOther -> [key |-> <<"k">>, value |-> <<"v">>]
    [] OTHER -> NoMatch

RefKeys == {<<"n", "a", "m", "e">>, <<"k">>}

\* the nesting depth behind the first k lines
RECURSIVE RefDepth(_, _)
RefDepth(lines, k) ==
  IF k = 0 THEN 0
  ELSE LET d == RefDepth(lines, k - 1)
       IN  IF lines[k] = LineOpen THEN d + 1
           ELSE IF lines[k] = LineClose THEN (IF d > 0 THEN d - 1 ELSE 0)
           ELSE d

\* the places among the first n lines that hold the key at a depth in depths
RefHits(lines, n, key, depths) ==
  {k \in 1..n : RefKV(lines[k]).key = key /\ RefDepth(lines, k - 1) \in depths}

\* the lines parse_acf has gone through
Parsed == parser.pos - 1
\* parse_acf has returned to the selector
AcfDone == pc = "acfDone"

\* C11: the record maps each key to the value of the first matching line
\* met at nesting depth >= 1; a matching line at depth 0 is never recorded
\* and a later occurrence of a recorded key does not change its value
C11_FirstInsideWins ==
  /\ DOMAIN parser.data \subseteq RefKeys
  /\ \A key \in RefKeys :
       LET hits == RefHits(parser.lines, Parsed, key, 1..MaxLines)
       IN  IF hits = {} THEN key \notin DOMAIN parser.data
           ELSE /\ key \in DOMAIN parser.data
                /\ parser.data[key] = RefKV(parser.lines[MinOf(hits)]).value

\* a manifest with a name at depth 0, then two different names inside
C11_Witness ==
  /\ AcfDone
  /\ RefHits(parser.lines, Parsed, NameKey, {0}) # {}
  /\ \E h, k \in RefHits(parser.lines, Parsed, NameKey, 1..MaxLines) :
       /\ h < k
       /\ RefKV(parser.lines[h]).value # RefKV(parser.lines[k]).value
       /\ \E z \in RefHits(parser.lines, Parsed, NameKey, {0}) : z < h

\* the values the key has directly in the outermost block
RefOuter(key) == RefHits(parser.lines, Parsed, key, {1})
\* the values the key has in nested blocks
RefInner(key) == RefHits(parser.lines, Parsed, key, 2..MaxLines)

\* C12 as stated: a key that occurs at depth 1 and at depth >= 2 is recorded
\* with an outermost-block value, whatever the order of the occurrences
C12_OutermostWins ==
  AcfDone =>
    \A key \in RefKeys :
      (RefOuter(key) # {} /\ RefInner(key) # {}) =>
        /\ key \in DOMAIN parser.data
        /\ \E k \in RefOuter(key) :
             parser.data[key] = RefKV(parser.lines[k]).value

\* C12 amended: a key that occurs at depth 1 and at depth >= 2 is recorded
\* with the value of whichever of these occurrences comes first in the file
C12_EarlierOfOuterAndInnerWins ==
  AcfDone =>
    \A key \in RefKeys :
      (RefOuter(key) # {} /\ RefInner(key) # {}) =>
        /\ key \in DOMAIN parser.data
        /\ parser.data[key] =
             RefKV(parser.lines[MinOf(RefOuter(key) \cup RefInner(key))]).value

\* the inner occurrence comes first and has another value than the outer one
C12_Witness ==
  /\ AcfDone
  /\ RefOuter(NameKey) # {} /\ RefInner(NameKey) # {}
  /\ MinOf(RefInner(NameKey)) < MinOf(RefOuter(NameKey))
  /\ \A k \in RefOuter(NameKey) :
       parser.data[NameKey] # RefKV(parser.lines[k]).value

\* C13: for every sequence of lines the nesting depth is never negative (a
\* closing brace at depth 0 leaves it at 0), parsing goes through every line
\* and returns a record, and without an opening brace the record is empty
C13_DepthFlooredParseCompletes ==
  /\ ~parser.raised
  /\ Len(parser.stack) = RefDepth(parser.lines, Parsed)
  /\ AcfDone => Parsed = Len(parser.lines)
  /\ (\A k \in 1..Parsed : parser.lines[k] # LineOpen) =>
       parser.data = EmptyData

\* a closing brace came at depth 0 and a later line was still recorded
C13_Witness ==
  /\ AcfDone
  /\ \E k \in 1..Parsed :
       parser.lines[k] = LineClose /\ RefDepth(parser.lines, k - 1) = 0
  /\ parser.data # EmptyData

\* C14 as stated: when the manifest records a name key the display name is
\* that value, also when it is the empty string
C14_NameIsRecordedValue ==
  (AcfDone /\ NameKey \in DOMAIN parser.data) =>
    active.name = parser.data[NameKey]

\* C14 amended: when the manifest records a non-empty name the display name
\* is that value; the fallback label is used when it records no name key or
\* an empty name
C14_NameIsNonEmptyRecordedValue ==
  AcfDone =>
    LET label == <<"A", "p", "p", "I", "D", " ", "1">>
    IN  IF NameKey \in DOMAIN parser.data /\ parser.data[NameKey] # <<>>
        THEN active.name = parser.data[NameKey]
        ELSE active.name = label

\* the manifest records the empty name and the fallback label is shown
C14_Witness ==
  /\ AcfDone /\ NameKey \in DOMAIN parser.data
  /\ parser.data[NameKey] = <<>> /\ active.name # <<>>

\* C15 as stated: with no manifest name the display name is "Package <id>"
C15_FallbackIsPackageId ==
  (AcfDone /\ NameKey \notin DOMAIN parser.data) =>
    active.name = <<"P", "a", "c", "k", "a", "g", "e", " ">> \o active.appid

\* C15 amended: with no manifest name the display name is "AppID <id>"
C15_FallbackIsAppId ==
  (AcfDone /\ NameKey \notin DOMAIN parser.data) =>
    /\ active.appid = <<"1">>
    /\ active.name = <<"A", "p", "p", "I", "D", " ">> \o active.appid

\* the manifest has lines but records no name
C15_Witness ==
  /\ AcfDone /\ NameKey \notin DOMAIN parser.data
  /\ parser.data # EmptyData

\* the session has ended, normally or by an uncaught exception
Ended == pc \in {"exit", "crashed"}
\* the round count the session is configured with
RoundsWanted == IF args.minutes >= 1 THEN args.minutes ELSE 1

\* C16 as stated: every round, once over, has printed exactly one line, the
\* notice or a status line of one package
C16_OneLinePerRound ==
  (pc = "sleep" \/ pc = "crashed" \/ (pc = "exit" /\ exitStatus = 0)) =>
    /\ Len(roundOut) = 1
    /\ roundOut[1].kind \in {"none", "status"}

\* C17 as stated: with the loop started and an interval >= 0 the session
\* ends after exactly max(1, N) rounds and max(1, N) - 1 sleeps, with exit
\* status 0
C17_RunsAllRounds ==
  (Ended /\ steam.found /\ steam.steamapps /\ args.interval >= 0) =>
    /\ pc = "exit" /\ exitStatus = 0
    /\ i = RoundsWanted - 1
    /\ Len(roundOut) = 1

\* C18 as stated: the exit status is 2 without an installation root, 3
\* without the steamapps directory, both with no round run, and 0 otherwise;
\* nothing inside a round changes it (intervals >= 0)
C18_ExitStatusSetAtStartup ==
  (Ended /\ args.interval >= 0) =>
    /\ exitStatus = (IF ~steam.found THEN 2
                     ELSE IF ~steam.steamapps THEN 3 ELSE 0)
    /\ exitStatus \in {2, 3} => (roundOut = <<>> /\ now = 0 /\ i = 0)

\* C19: a package is reported "downloading" only when RateState already has
\* an entry for it; on its first observation the previous size is the
\* current size, delta and rate are 0 and the status is "paused or idle"
C19_DownloadingOnlyWhenSeen ==
  [][(pc = "report" /\ pc' # "report" /\ active # NoActive) =>
       /\ roundOut'[1].status = "downloading" => active.appid \in DOMAIN prev
       /\ active.appid \notin DOMAIN prev =>
            /\ est'.last_b = active.bytes_on_disk
            /\ est'.delta = 0 /\ est'.rate.num = 0
            /\ roundOut'[1].status = "paused or idle"]_vars

\* a package of a threshold's size was first seen and reported idle
C19_Witness ==
  /\ Reported /\ est.first /\ roundOut[1].temp >= 262144
  /\ roundOut[1].status = "paused or idle" /\ pc \in {"sleep", "exit"}

\* C20: a package that was observed, then not active for a round or more,
\* and is active again has its delta taken against the size retained from
\* its last observation and its elapsed time since that observation: the
\* entry is not touched in between, and the estimate reads it
C20_ResumesFromRetained ==
  [][/\ (pc = "report" /\ pc' # "report" /\ active # NoActive
         /\ active.appid \in DOMAIN prev) =>
          /\ est'.last_b = prev[active.appid]
          /\ est'.last_t = prev_time[active.appid]
          /\ est'.delta = (IF active.bytes_on_disk > prev[active.appid]
                           THEN active.bytes_on_disk - prev[active.appid]
                           ELSE 0)
          /\ est'.dt = (IF now - prev_time[active.appid] >= 1
                        THEN now - prev_time[active.appid] ELSE 1)
     /\ \A k \in DOMAIN prev :
          ~(pc = "report" /\ active # NoActive /\ active.appid = k) =>
            /\ k \in DOMAIN prev' /\ k \in DOMAIN prev_time'
            /\ prev'[k] = prev[k] /\ prev_time'[k] = prev_time[k]]_vars

\* the third round reports a package last seen in the first: it grew, and
\* the elapsed time is two intervals
C20_Witness ==
  /\ Reported /\ ~est.first /\ i = 2
  /\ args.interval = DefaultInterval
  /\ est.dt = 2 * DefaultInterval /\ now - est.last_t = 2 * DefaultInterval
  /\ est.delta > 0
====
